---- MODULE Spec2Model ----
(***************************************************************************)
(* wallaced-core (src/main/main.py): the State object (interactive lock,   *)
(* keyword registry), the Flask handlers in front of it and the message    *)
(* relay, as a state machine.                                              *)
(*                                                                         *)
(* Specifications:                                                         *)
(*   SpecLock      one caller at a time on State.lock / unlock /           *)
(*                 is_unlocked and the /enable_interactive handler         *)
(*   SpecConc      two request threads running State.lock / State.unlock   *)
(*                 statement by statement (app.run(threaded=True))         *)
(*   SpecRegistry  State.add_keyword / deregister_all, /register_phrase    *)
(*   SpecConcRegistry  two request threads running State.add_keyword /     *)
(*                 State.deregister_all statement by statement             *)
(*   SpecRelay     /post_message, /request_from, /get_message              *)
(*   SpecFrame     the State methods of the lock and of the registry       *)
(***************************************************************************)
EXTENDS Integers, Sequences, FiniteSets, TLC

VARIABLES
    interactive_lock,   \* State.interactive_lock
    locking_module,     \* State.locking_module
    keywords,           \* State.keywords
    hist,               \* the calls made on the lock so far: op, arg, ret
    last,               \* the most recent registry call or handler request and its outcome
    pc,                 \* per request thread: the statement it is at
    targ,               \* per request thread: the argument of its call
    tret,               \* per request thread: what its last call returned
    tops,               \* per request thread: the calls it has started
    tloc                \* per request thread: the locals of its call

vars == <<interactive_lock, locking_module, keywords, hist, last, pc, targ, tret, tops, tloc>>

\* ---------------------------------------------------------------- values

\* Python's None.
None == "None"

\* Module identifiers a caller may pass (opaque strings).
Modules == {"a", "b", "module"}

\* Phrases a caller may register.
Phrases == {"lights on", "lights off"}

\* ---------------------------------------------------------------- bounds

\* Calls recorded in hist.
MaxCalls == 4

\* Entries the registry may hold.
MaxKeywords == 3

\* Calls one thread may start.
MaxThreadCalls == 2

\* Request threads.
Threads == {1, 2}

\* ---------------------------------------------------------------- State

\* State.__init__
StateInit ==
    /\ interactive_lock = FALSE
    /\ locking_module = None
    /\ keywords = <<>>

\* State.is_unlocked
is_unlocked == ~interactive_lock

\* State.lock(module): the value returned and the field it leaves.
lock(module) ==
    IF ~is_unlocked
    THEN [ret |-> FALSE, locking_module |-> locking_module]
    ELSE [ret |-> TRUE, locking_module |-> module]

\* State.unlock(): the value returned and the field it leaves.
unlock ==
    IF ~interactive_lock
    THEN [ret |-> FALSE, interactive_lock |-> interactive_lock]
    ELSE [ret |-> TRUE, interactive_lock |-> FALSE]

\* No call or request observed yet.
NoCall == [op |-> None]

ThreadsIdle ==
    /\ pc = [t \in Threads |-> "idle"]
    /\ targ = [t \in Threads |-> None]
    /\ tret = [t \in Threads |-> None]
    /\ tops = [t \in Threads |-> <<>>]
    /\ tloc = [t \in Threads |-> None]

Init ==
    /\ StateInit
    /\ hist = <<>>
    /\ last = NoCall
    /\ ThreadsIdle

\* ---------------------------------------------------------------- lock manager, one caller

\* A caller runs state.lock(module) to completion.
CallLock(module) ==
    /\ Len(hist) < MaxCalls
    /\ locking_module' = lock(module).locking_module
    /\ hist' = Append(hist, [op |-> "lock", arg |-> module, ret |-> lock(module).ret])
    /\ UNCHANGED <<interactive_lock, keywords, last, pc, targ, tret, tops, tloc>>

\* A caller runs state.unlock() to completion.
CallUnlock ==
    /\ Len(hist) < MaxCalls
    /\ interactive_lock' = unlock.interactive_lock
    /\ hist' = Append(hist, [op |-> "unlock", arg |-> None, ret |-> unlock.ret])
    /\ UNCHANGED <<locking_module, keywords, last, pc, targ, tret, tops, tloc>>

\* A caller runs state.is_unlocked().
CallIsUnlocked ==
    /\ Len(hist) < MaxCalls
    /\ hist' = Append(hist, [op |-> "is_unlocked", arg |-> None, ret |-> is_unlocked])
    /\ UNCHANGED <<interactive_lock, locking_module, keywords, last, pc, targ, tret, tops, tloc>>

\* ---------------------------------------------------------------- requests

\* What request.json holds: nothing (absent or falsy), a JSON object, a string that
\* is not JSON text, or a string holding the JSON text of an object.
ReqKinds == {"empty", "object", "badstring", "string"}

\* `if not request.json: abort(400)`
request_json_falsy(req) == req.kind = "empty"

\* json.loads(request.json): the exception it raises, None when it returns a dict.
\* It takes text only: an object already parsed is a TypeError.
json_loads(req) ==
    CASE req.kind = "object" -> "TypeError"
      [] req.kind = "badstring" -> "JSONDecodeError"
      [] OTHER -> None

\* The attributes a dict has; body is a dict, its keys are not attributes.
DictAttrs == {"clear", "copy", "fromkeys", "get", "items", "keys", "pop",
              "popitem", "setdefault", "update", "values"}

\* body.<name>: the exception the attribute access raises, None when it succeeds.
getattr(name) == IF name \in DictAttrs THEN None ELSE "AttributeError"

\* jsonify({'result': b})
jsonify(b) == [result |-> b]

\* What a handler leaves: the exception that ended it (abort(400) included) or None,
\* and the response it returned.
Raised(e) == [exc |-> e, ret |-> None]
Returned(r) == [exc |-> None, ret |-> r]

\* ---------------------------------------------------------------- /enable_interactive

LockRequests ==
    {[kind |-> k, locker |-> l, sender |-> s] : k \in ReqKinds, l \in Modules, s \in Modules}

\* interactive_lock(): the outcome and the locking_module it leaves.
interactive_lock_outcome(req) ==
    IF request_json_falsy(req)
    THEN [out |-> Raised("abort400"), locking_module |-> locking_module]
    ELSE IF json_loads(req) # None
    THEN [out |-> Raised(json_loads(req)), locking_module |-> locking_module]
    ELSE IF is_unlocked
    THEN IF getattr("locker") # None
         THEN [out |-> Raised(getattr("locker")), locking_module |-> locking_module]
         ELSE IF getattr("sender") # None
         THEN [out |-> Raised(getattr("sender")),
               locking_module |-> lock(req.locker).locking_module]
         ELSE [out |-> Returned(jsonify(TRUE)),
               locking_module |-> lock(req.locker).locking_module]
    ELSE IF getattr("sender") # None
         THEN [out |-> Raised(getattr("sender")), locking_module |-> locking_module]
         ELSE [out |-> Returned(jsonify(FALSE)), locking_module |-> locking_module]

\* A POST to /enable_interactive.
enable_interactive(req) ==
    /\ locking_module' = interactive_lock_outcome(req).locking_module
    /\ last' = [op |-> "enable_interactive", req |-> req,
                exc |-> interactive_lock_outcome(req).out.exc,
                ret |-> interactive_lock_outcome(req).out.ret]
    /\ UNCHANGED <<interactive_lock, keywords, hist, pc, targ, tret, tops, tloc>>

\* ---------------------------------------------------------------- /disable_interactive

\* Modules that send release requests.
Releasers == {"a", "b"}

\* The keys the body of a release request may carry.
KeySets == {{}, {"sender"}, {"sender", "extra"}}

UnlockRequests ==
    {[kind |-> k, keys |-> ks, sender |-> s] :
        k \in ReqKinds, ks \in KeySets, s \in Releasers}

\* required_args of remove_lock.
required_args == {"sender"}

\* `all(x in required_args for x in body)`: every key of the body is a required
\* argument.
all_in_required_args(req) == \A x \in req.keys : x \in required_args

\* remove_lock(): the outcome and the interactive_lock it leaves. The debug text
\* of the already-unlocked case reads body.sender.
remove_lock(req) ==
    IF request_json_falsy(req)
    THEN [out |-> Raised("abort400"), interactive_lock |-> interactive_lock]
    ELSE IF json_loads(req) # None
    THEN [out |-> Raised(json_loads(req)), interactive_lock |-> interactive_lock]
    ELSE IF ~all_in_required_args(req)
    THEN [out |-> Raised("abort400"), interactive_lock |-> interactive_lock]
    ELSE IF ~unlock.ret /\ getattr("sender") # None
    THEN [out |-> Raised(getattr("sender")), interactive_lock |-> unlock.interactive_lock]
    ELSE [out |-> Returned(jsonify(TRUE)), interactive_lock |-> unlock.interactive_lock]

\* A POST to /disable_interactive.
disable_interactive(req) ==
    /\ interactive_lock' = remove_lock(req).interactive_lock
    /\ last' = [op |-> "disable_interactive", req |-> req,
                exc |-> remove_lock(req).out.exc,
                ret |-> remove_lock(req).out.ret,
                pre |-> <<interactive_lock, locking_module, keywords>>]
    /\ UNCHANGED <<locking_module, keywords, hist, pc, targ, tret, tops, tloc>>

NextLock ==
    \/ \E module \in Modules : CallLock(module)
    \/ CallUnlock
    \/ CallIsUnlocked
    \/ \E req \in LockRequests : enable_interactive(req)
    \/ \E req \in UnlockRequests : disable_interactive(req)

SpecLock == Init /\ [][NextLock]_vars

\* ---------------------------------------------------------------- lock manager, two threads

\* Thread t enters state.lock(module).
ThreadCallLock(t, module) ==
    /\ pc[t] = "idle"
    /\ Len(tops[t]) < MaxThreadCalls
    /\ pc' = [pc EXCEPT ![t] = "lock_check"]
    /\ targ' = [targ EXCEPT ![t] = module]
    /\ tret' = [tret EXCEPT ![t] = None]
    /\ tops' = [tops EXCEPT ![t] = Append(@, "lock")]
    /\ UNCHANGED <<interactive_lock, locking_module, keywords, hist, last, tloc>>

\* Thread t runs the next statement of state.lock: the check, then the assignment
\* and the return.
ThreadLockStep(t) ==
    /\ pc[t] \in {"lock_check", "lock_set"}
    /\ IF pc[t] = "lock_check"
       THEN /\ IF ~is_unlocked
               THEN /\ pc' = [pc EXCEPT ![t] = "idle"]
                    /\ tret' = [tret EXCEPT ![t] = FALSE]
               ELSE /\ pc' = [pc EXCEPT ![t] = "lock_set"]
                    /\ UNCHANGED tret
            /\ UNCHANGED locking_module
       ELSE /\ locking_module' = targ[t]
            /\ tret' = [tret EXCEPT ![t] = TRUE]
            /\ pc' = [pc EXCEPT ![t] = "idle"]
    /\ UNCHANGED <<interactive_lock, keywords, hist, last, targ, tops, tloc>>

\* Thread t enters state.unlock().
ThreadCallUnlock(t) ==
    /\ pc[t] = "idle"
    /\ Len(tops[t]) < MaxThreadCalls
    /\ pc' = [pc EXCEPT ![t] = "unlock_check"]
    /\ targ' = [targ EXCEPT ![t] = None]
    /\ tret' = [tret EXCEPT ![t] = None]
    /\ tops' = [tops EXCEPT ![t] = Append(@, "unlock")]
    /\ UNCHANGED <<interactive_lock, locking_module, keywords, hist, last, tloc>>

\* Thread t runs the next statement of state.unlock: the check, then the
\* assignment and the return.
ThreadUnlockStep(t) ==
    /\ pc[t] \in {"unlock_check", "unlock_set"}
    /\ IF pc[t] = "unlock_check"
       THEN /\ IF ~interactive_lock
               THEN /\ pc' = [pc EXCEPT ![t] = "idle"]
                    /\ tret' = [tret EXCEPT ![t] = FALSE]
               ELSE /\ pc' = [pc EXCEPT ![t] = "unlock_set"]
                    /\ UNCHANGED tret
            /\ UNCHANGED interactive_lock
       ELSE /\ interactive_lock' = FALSE
            /\ tret' = [tret EXCEPT ![t] = TRUE]
            /\ pc' = [pc EXCEPT ![t] = "idle"]
    /\ UNCHANGED <<locking_module, keywords, hist, last, targ, tops, tloc>>

NextConc ==
    \E t \in Threads :
        \/ \E module \in Modules : ThreadCallLock(t, module)
        \/ ThreadLockStep(t)
        \/ ThreadCallUnlock(t)
        \/ ThreadUnlockStep(t)

SpecConc == Init /\ [][NextConc]_vars

\* ---------------------------------------------------------------- keyword registry

\* State.add_keyword(phrase, module): the list after the append.
add_keyword(phrase, module) ==
    Append(keywords, [module |-> module, phrase |-> phrase])

\* The loop of State.deregister_all from entry i on. `phrase[module]` looks the
\* argument up as a key of the entry: a KeyError unless the argument is the name
\* of a field.
RECURSIVE deregister_loop(_, _, _, _)
deregister_loop(module, i, new_phrase_list, removed_phrases) ==
    IF i > Len(keywords)
    THEN [exc |-> None, ret |-> removed_phrases, keywords |-> new_phrase_list]
    ELSE LET phrase == keywords[i] IN
         IF module \notin DOMAIN phrase
         THEN [exc |-> "KeyError", ret |-> None, keywords |-> keywords]
         ELSE IF phrase[module] = module
         THEN deregister_loop(module, i + 1, new_phrase_list, removed_phrases + 1)
         ELSE deregister_loop(module, i + 1, Append(new_phrase_list, phrase),
                              removed_phrases)

\* State.deregister_all(module): the exception or the count returned, and the
\* list it leaves.
deregister_all(module) == deregister_loop(module, 1, <<>>, 0)

\* add_keyword as it would be if it also recorded its module as the lock's owner.
CallAddKeywordTakesLock(phrase, module) ==
    /\ Len(keywords) < MaxKeywords
    /\ keywords' = add_keyword(phrase, module)
    /\ locking_module' = module
    /\ last' = [op |-> "add_keyword", phrase |-> phrase, arg |-> module,
                exc |-> None, ret |-> None, pre |-> keywords]
    /\ UNCHANGED <<interactive_lock, hist, pc, targ, tret, tops, tloc>>

\* A caller runs state.add_keyword(phrase, module).
CallAddKeyword(phrase, module) ==
    /\ Len(keywords) < MaxKeywords
    /\ keywords' = add_keyword(phrase, module)
    /\ last' = [op |-> "add_keyword", phrase |-> phrase, arg |-> module,
                exc |-> None, ret |-> None, pre |-> keywords]
    /\ UNCHANGED <<interactive_lock, locking_module, hist, pc, targ, tret, tops, tloc>>

\* A caller runs state.deregister_all(module).
CallDeregisterAll(module) ==
    /\ keywords' = deregister_all(module).keywords
    /\ last' = [op |-> "deregister_all", arg |-> module,
                exc |-> deregister_all(module).exc,
                ret |-> deregister_all(module).ret, pre |-> keywords]
    /\ UNCHANGED <<interactive_lock, locking_module, hist, pc, targ, tret, tops, tloc>>

\* ---------------------------------------------------------------- /register_phrase

RegRequests ==
    {[kind |-> k, sender |-> s, phrase |-> p] :
        k \in ReqKinds, s \in Modules, p \in Phrases \cup {""}}

\* register_keyword(): the outcome and the list it leaves. The call passes
\* (body.sender, body.phrase) to add_keyword(phrase, module).
register_keyword(req) ==
    IF request_json_falsy(req)
    THEN [out |-> Raised("abort400"), keywords |-> keywords]
    ELSE IF json_loads(req) # None
    THEN [out |-> Raised(json_loads(req)), keywords |-> keywords]
    ELSE IF getattr("phrase") # None
    THEN [out |-> Raised(getattr("phrase")), keywords |-> keywords]
    ELSE IF req.phrase = ""
    THEN [out |-> Raised("abort400"), keywords |-> keywords]
    ELSE IF getattr("sender") # None
    THEN [out |-> Raised(getattr("sender")), keywords |-> keywords]
    ELSE [out |-> Returned(jsonify(TRUE)),
          keywords |-> add_keyword(req.sender, req.phrase)]

\* A POST to /register_phrase.
register_phrase(req) ==
    /\ Len(keywords) < MaxKeywords
    /\ keywords' = register_keyword(req).keywords
    /\ last' = [op |-> "register_phrase", req |-> req,
                exc |-> register_keyword(req).out.exc,
                ret |-> register_keyword(req).out.ret, pre |-> keywords]
    /\ UNCHANGED <<interactive_lock, locking_module, hist, pc, targ, tret, tops, tloc>>

\* ---------------------------------------------------------------- match

\* Texts a match query may carry.
Texts == {"please turn the lights on now", "lights off"}

\* A string as its words.
Words(s) ==
    CASE s = "lights on" -> <<"lights", "on">>
      [] s = "lights off" -> <<"lights", "off">>
      [] s = "please turn the lights on now" ->
            <<"please", "turn", "the", "lights", "on", "now">>
      [] s = "" -> <<>>
      [] OTHER -> <<s>>

\* text contains phrase.
Contains(text, phrase) ==
    \E i \in 0 .. (Len(Words(text)) - Len(Words(phrase))) :
        SubSeq(Words(text), i + 1, i + Len(Words(phrase))) = Words(phrase)

\* match(text): the owner of the first entry, in insertion order, whose phrase
\* the text contains; None when there is none.
match(text) ==
    LET hits == {i \in 1 .. Len(keywords) : Contains(text, keywords[i].phrase)} IN
    IF hits = {}
    THEN None
    ELSE keywords[CHOOSE i \in hits : \A j \in hits : i <= j].module

\* A caller runs a match query.
CallMatch(text) ==
    /\ last' = [op |-> "match", arg |-> text, exc |-> None, ret |-> match(text),
                pre |-> keywords]
    /\ UNCHANGED <<interactive_lock, locking_module, keywords, hist, pc, targ, tret, tops, tloc>>

NextRegistry ==
    \/ \E phrase \in Phrases, module \in Modules : CallAddKeyword(phrase, module)
    \/ \E module \in Modules : CallDeregisterAll(module)
    \/ \E req \in RegRequests : register_phrase(req)
    \/ \E text \in Texts : CallMatch(text)

SpecRegistry == Init /\ [][NextRegistry]_vars

\* ---------------------------------------------------------------- keyword registry, two threads

\* Thread t runs state.add_keyword(phrase, module): the entry is built and
\* appended by one list.append.
ThreadAddKeyword(t, phrase, module) ==
    /\ pc[t] = "idle"
    /\ Len(tops[t]) < MaxThreadCalls
    /\ Len(keywords) < MaxKeywords
    /\ keywords' = add_keyword(phrase, module)
    /\ targ' = [targ EXCEPT ![t] = module]
    /\ tloc' = [tloc EXCEPT ![t] = [phrase |-> phrase]]
    /\ tret' = [tret EXCEPT ![t] = None]
    /\ tops' = [tops EXCEPT ![t] = Append(@, "add_keyword")]
    /\ UNCHANGED <<interactive_lock, locking_module, hist, last, pc>>

\* Thread t enters state.deregister_all(module): new_phrase_list = [],
\* removed_phrases = 0, and the loop starts at the first entry.
ThreadCallDeregisterAll(t, module) ==
    /\ pc[t] = "idle"
    /\ Len(tops[t]) < MaxThreadCalls
    /\ pc' = [pc EXCEPT ![t] = "deregister_loop"]
    /\ targ' = [targ EXCEPT ![t] = module]
    /\ tloc' = [tloc EXCEPT ![t] = [i |-> 1, new_phrase_list |-> <<>>,
                                    removed_phrases |-> 0]]
    /\ tret' = [tret EXCEPT ![t] = None]
    /\ tops' = [tops EXCEPT ![t] = Append(@, "deregister_all")]
    /\ UNCHANGED <<interactive_lock, locking_module, keywords, hist, last>>

\* Thread t runs the next statement of state.deregister_all: one turn of the
\* loop over the list as it is now (the iterator reads its length at every
\* turn), or, the loop over, the assignment of the new list and the return.
ThreadDeregisterAllStep(t) ==
    /\ pc[t] \in {"deregister_loop", "deregister_assign"}
    /\ IF pc[t] = "deregister_loop"
       THEN /\ IF tloc[t].i > Len(keywords)
               THEN /\ pc' = [pc EXCEPT ![t] = "deregister_assign"]
                    /\ UNCHANGED <<tloc, tret>>
               ELSE IF targ[t] \notin DOMAIN keywords[tloc[t].i]
               THEN /\ pc' = [pc EXCEPT ![t] = "idle"]
                    /\ tret' = [tret EXCEPT ![t] = "KeyError"]
                    /\ UNCHANGED tloc
               ELSE IF keywords[tloc[t].i][targ[t]] = targ[t]
               THEN /\ tloc' = [tloc EXCEPT ![t].i = @ + 1,
                                            ![t].removed_phrases = @ + 1]
                    /\ UNCHANGED <<pc, tret>>
               ELSE /\ tloc' = [tloc EXCEPT ![t].i = @ + 1,
                                            ![t].new_phrase_list =
                                                Append(@, keywords[tloc[t].i])]
                    /\ UNCHANGED <<pc, tret>>
            /\ UNCHANGED keywords
       ELSE /\ keywords' = tloc[t].new_phrase_list
            /\ tret' = [tret EXCEPT ![t] = tloc[t].removed_phrases]
            /\ pc' = [pc EXCEPT ![t] = "idle"]
            /\ UNCHANGED tloc
    /\ UNCHANGED <<interactive_lock, locking_module, hist, last, targ, tops>>

NextConcRegistry ==
    \E t \in Threads :
        \/ \E phrase \in Phrases, module \in Modules : ThreadAddKeyword(t, phrase, module)
        \/ \E module \in Modules : ThreadCallDeregisterAll(t, module)
        \/ ThreadDeregisterAllStep(t)

SpecConcRegistry == Init /\ [][NextConcRegistry]_vars

\* ---------------------------------------------------------------- /post_message

\* What becomes of the outbound POST: the destination answers, the call fails
\* with a RequestException, or the destination never answers (requests.post is
\* given no timeout).
Net == {"ok", "fail", "hang"}

\* Modules that send relay requests, and the texts they send.
Senders == {"a", "b"}
RelayTexts == {"lights off"}

SendRequests ==
    {[kind |-> k, sender |-> s, dest |-> d, text |-> x] :
        k \in ReqKinds, s \in Senders, d \in Modules, x \in RelayTexts}

\* What a destination answers (r.json()).
DestResponse == [result |-> TRUE]

\* A handler blocked in requests.post for good: it neither returns nor raises.
NeverReturns == [exc |-> "blocked", ret |-> None]

\* send_message from `data = ...` on, message being a dict from json.loads: the
\* outcome, and the url of the outbound POST when one was made. On a
\* RequestException the function logs the error and ends without a return
\* statement.
send_body(dest, net) ==
    IF getattr("text") # None
    THEN [out |-> Raised(getattr("text")), posted |-> None]
    ELSE IF getattr("sender") # None
    THEN [out |-> Raised(getattr("sender")), posted |-> None]
    ELSE IF getattr("dest") # None
    THEN [out |-> Raised(getattr("dest")), posted |-> None]
    ELSE IF net = "ok"
    THEN [out |-> Returned(DestResponse), posted |-> dest]
    ELSE IF net = "fail"
    THEN [out |-> Returned(None), posted |-> dest]
    ELSE [out |-> NeverReturns, posted |-> dest]

\* send_message(message=None) run for a request.
send_message(req, net) ==
    IF request_json_falsy(req)
    THEN [out |-> Raised("abort400"), posted |-> None]
    ELSE IF json_loads(req) # None
    THEN [out |-> Raised(json_loads(req)), posted |-> None]
    ELSE send_body(req.dest, net)

\* A POST to /post_message.
post_message(req, net) ==
    /\ last' = [op |-> "post_message", req |-> req, net |-> net,
                exc |-> send_message(req, net).out.exc,
                ret |-> send_message(req, net).out.ret,
                posted |-> send_message(req, net).posted,
                pre |-> <<interactive_lock, locking_module, keywords>>]
    /\ UNCHANGED <<interactive_lock, locking_module, keywords, hist, pc, targ, tret, tops, tloc>>

\* ---------------------------------------------------------------- /request_from

\* Function names a proxy call may carry.
FuncNames == {"status"}

ProxyRequests ==
    {[kind |-> k, sender |-> s, module |-> m, func_name |-> f] :
        k \in ReqKinds, s \in Senders, m \in Modules, f \in FuncNames}

\* jsonify({'result': False, 'error': True})
RelayError == [result |-> FALSE, error |-> TRUE]

\* request_from() run for a request: the outcome, and the target of the outbound
\* POST when one was made.
request_from(req, net) ==
    IF request_json_falsy(req)
    THEN [out |-> Raised("abort400"), posted |-> None]
    ELSE IF json_loads(req) # None
    THEN [out |-> Raised(json_loads(req)), posted |-> None]
    ELSE IF getattr("module") # None
    THEN [out |-> Raised(getattr("module")), posted |-> None]
    ELSE IF getattr("func_name") # None
    THEN [out |-> Raised(getattr("func_name")), posted |-> None]
    ELSE IF getattr("payload") # None
    THEN [out |-> Raised(getattr("payload")), posted |-> None]
    ELSE IF net = "ok"
    THEN [out |-> Returned(DestResponse), posted |-> req.module]
    ELSE IF net = "fail"
    THEN [out |-> Returned(RelayError), posted |-> req.module]
    ELSE [out |-> NeverReturns, posted |-> req.module]

\* A POST to /request_from.
proxy_call(req, net) ==
    /\ last' = [op |-> "request_from", req |-> req, net |-> net,
                exc |-> request_from(req, net).out.exc,
                ret |-> request_from(req, net).out.ret,
                posted |-> request_from(req, net).posted,
                pre |-> <<interactive_lock, locking_module, keywords>>]
    /\ UNCHANGED <<interactive_lock, locking_module, keywords, hist, pc, targ, tret, tops, tloc>>

\* ---------------------------------------------------------------- /get_message

DeliverRequests ==
    {[kind |-> k, sender |-> s, message |-> x] :
        k \in ReqKinds, s \in Senders, x \in RelayTexts}

\* _process_message(message): forwards through send_message only when
\* state.interactive_lock is set; the body of a deliver request has no dest.
process_message(net) ==
    IF interactive_lock
    THEN send_body(None, net)
    ELSE [out |-> Returned(None), posted |-> None]

\* accept_message() run for a request. `target=_process_message(body)` calls
\* _process_message in the handler itself, before the thread is made, so what it
\* raises ends the handler and where it blocks the handler blocks; the thread
\* then runs target None.
accept_message(req, net) ==
    IF request_json_falsy(req)
    THEN [out |-> Raised("abort400"), posted |-> None]
    ELSE IF json_loads(req) # None
    THEN [out |-> Raised(json_loads(req)), posted |-> None]
    ELSE IF process_message(net).out.exc # None
    THEN process_message(net)
    ELSE [out |-> Returned(jsonify(TRUE)), posted |-> process_message(net).posted]

\* A POST to /get_message. `at` is the number of lock calls made before it.
get_message(req, net) ==
    /\ last' = [op |-> "get_message", req |-> req, net |-> net,
                exc |-> accept_message(req, net).out.exc,
                ret |-> accept_message(req, net).out.ret,
                posted |-> accept_message(req, net).posted,
                at |-> Len(hist),
                pre |-> <<interactive_lock, locking_module, keywords>>]
    /\ UNCHANGED <<interactive_lock, locking_module, keywords, hist, pc, targ, tret, tops, tloc>>

\* Lock calls recorded in hist beside the relay.
MaxRelayCalls == 2

\* A caller takes or releases the lock between relay requests.
RelayLock(module) == Len(hist) < MaxRelayCalls /\ CallLock(module)
RelayUnlock == Len(hist) < MaxRelayCalls /\ CallUnlock

NextRelay ==
    \/ \E req \in SendRequests, net \in Net : post_message(req, net)
    \/ \E req \in ProxyRequests, net \in Net : proxy_call(req, net)
    \/ \E req \in DeliverRequests, net \in Net : get_message(req, net)
    \/ \E module \in Modules : RelayLock(module)
    \/ RelayUnlock

SpecRelay == Init /\ [][NextRelay]_vars

\* ---------------------------------------------------------------- lock and registry together

\* Lock calls and registry entries beside each other.
MaxFrameCalls == 2
MaxFrameKeywords == 2

\* One caller at a time runs the State methods of the lock and of the registry.
FrameLock(module) == Len(hist) < MaxFrameCalls /\ CallLock(module)
FrameUnlock == Len(hist) < MaxFrameCalls /\ CallUnlock
FrameIsUnlocked == Len(hist) < MaxFrameCalls /\ CallIsUnlocked
FrameAddKeyword(phrase, module) ==
    Len(keywords) < MaxFrameKeywords /\ CallAddKeyword(phrase, module)

NextFrame ==
    \/ \E module \in Modules : FrameLock(module)
    \/ FrameUnlock
    \/ FrameIsUnlocked
    \/ \E phrase \in Phrases, module \in Modules : FrameAddKeyword(phrase, module)
    \/ \E module \in Modules : CallDeregisterAll(module)

SpecFrame == Init /\ [][NextFrame]_vars

\* ---------------------------------------------------------------- properties: lock manager

\* Call i of hist is an acquire that was granted.
Granted(i) == hist[i].op = "lock" /\ hist[i].ret = TRUE

\* No release was called strictly between calls i and j of hist.
NoReleaseBetween(i, j) == \A k \in (i + 1) .. (j - 1) : hist[k].op # "unlock"

\* When call j of hist starts, an acquire has been granted and not released since.
HeldBefore(j) == \E i \in 1 .. (j - 1) : Granted(i) /\ NoReleaseBetween(i, j)

\* C1: once an acquire has been granted and no release has happened since, every
\* further acquire, by any owner, returns false.
C1_AcquireDeniedWhileHeld ==
    \A j \in 1 .. Len(hist) :
        (hist[j].op = "lock" /\ HeldBefore(j)) => hist[j].ret = FALSE

\* C2: two distinct callers that each ran one acquire, interleaved in any order
\* from the initial unlocked state with no release, got exactly one true between
\* them.
C2_ConcurrentAcquireExactlyOne ==
    ((\A t \in Threads : tops[t] = <<"lock">> /\ pc[t] = "idle")
        /\ \A t, u \in Threads : t # u => targ[t] # targ[u])
    => Cardinality({t \in Threads : tret[t] = TRUE}) = 1

\* C3: release returns false when the lock is not held, true when it is held, and
\* an is_free() right after a release of a held lock returns true.
C3_ReleaseResult ==
    \A j \in 1 .. Len(hist) :
        hist[j].op = "unlock" =>
            /\ hist[j].ret = HeldBefore(j)
            /\ (HeldBefore(j) /\ j < Len(hist) /\ hist[j + 1].op = "is_unlocked")
                  => hist[j + 1].ret = TRUE

\* C4: from the initial state, acquire(A), acquire(B), release(), acquire(B) with
\* A and B distinct return true, false, true, true.
C4_HandoverScenario ==
    \A A, B \in Modules :
        (/\ A # B
         /\ Len(hist) >= 4
         /\ hist[1].op = "lock" /\ hist[1].arg = A
         /\ hist[2].op = "lock" /\ hist[2].arg = B
         /\ hist[3].op = "unlock"
         /\ hist[4].op = "lock" /\ hist[4].arg = B)
        => <<hist[1].ret, hist[2].ret, hist[3].ret, hist[4].ret>>
              = <<TRUE, FALSE, TRUE, TRUE>>

\* C5: the lock fields agree in every state: unlocked means no owner, locked means
\* the owner is the argument of the acquire that was granted and not released.
C5_LockFieldsAgree ==
    /\ ~interactive_lock => locking_module = None
    /\ interactive_lock =>
          \E i \in 1 .. Len(hist) :
              /\ Granted(i)
              /\ NoReleaseBetween(i, Len(hist) + 1)
              /\ locking_module = hist[i].arg

\* ---------------------------------------------------------------- properties: keyword registry

\* The entries of registry kw that module owns, as positions.
OwnedBy(kw, module) == {i \in 1 .. Len(kw) : kw[i].module = module}

\* Registry kw without the entries of module, order kept.
Without(kw, module) == SelectSeq(kw, LAMBDA e : e.module # module)

\* C6: deregister_all(owner) removes exactly the entries of that owner, returns
\* their count, and keeps the other entries in their order.
C6_DeregisterRemovesExactly ==
    last.op = "deregister_all" =>
        /\ last.exc = None
        /\ last.ret = Cardinality(OwnedBy(last.pre, last.arg))
        /\ keywords = Without(last.pre, last.arg)

\* C7: deregister_all on an owner with no entry returns 0 and leaves the registry
\* as it was, whether the registry is empty or holds other owners' entries.
C7_DeregisterAbsentOwner ==
    (last.op = "deregister_all" /\ OwnedBy(last.pre, last.arg) = {}) =>
        /\ last.exc = None
        /\ last.ret = 0
        /\ keywords = last.pre

\* C8: a register-phrase request carrying sender s and a non-empty phrase p is
\* answered and appends the one entry (owner s, phrase p) after the earlier ones.
C8_RegisterAppends ==
    (/\ last.op = "register_phrase"
     /\ last.req.kind \in {"object", "string"}
     /\ last.req.phrase # "")
    => /\ last.exc = None
       /\ keywords = Append(last.pre, [module |-> last.req.sender,
                                       phrase |-> last.req.phrase])

\* The registry after A registered "lights on" and B registered "lights off".
LightsRegistry ==
    <<[module |-> "a", phrase |-> "lights on"], [module |-> "b", phrase |-> "lights off"]>>

\* C9: match returns the owner of the first entry whose phrase the text contains
\* and none without one; with A's "lights on" and B's "lights off" registered the
\* lights-on query returns A, deregister_all(A) returns 1 and the query then
\* returns none.
C9_MatchScenario ==
    /\ last.op = "match" =>
          \/ /\ last.ret = None
             /\ \A i \in 1 .. Len(keywords) : ~Contains(last.arg, keywords[i].phrase)
          \/ \E i \in 1 .. Len(keywords) :
                /\ Contains(last.arg, keywords[i].phrase)
                /\ \A j \in 1 .. (i - 1) : ~Contains(last.arg, keywords[j].phrase)
                /\ last.ret = keywords[i].module
    /\ keywords = LightsRegistry => match("please turn the lights on now") = "a"
    /\ (last.op = "deregister_all" /\ last.arg = "a" /\ last.pre = LightsRegistry) =>
          /\ last.exc = None
          /\ last.ret = 1
          /\ match("please turn the lights on now") = None

\* ---------------------------------------------------------------- properties: relay

\* C10: a send whose outbound call fails returns a result value to the caller (no
\* exception, no absent result) and leaves locked, lock_owner and keywords as
\* they were.
C10_SendUnreachable ==
    (/\ last.op = "post_message"
     /\ last.req.kind \in {"object", "string"}
     /\ last.net = "fail")
    => /\ last.exc = None
       /\ last.ret # None
       /\ <<interactive_lock, locking_module, keywords>> = last.pre

\* A request whose body carries its fields, as a JSON object or as the JSON text
\* of one.
CarriesFields(req) == req.kind \in {"object", "string"}

\* C11: a proxy call returns the target's response as it is when the outbound
\* call succeeds and the marker {result: false, error: true} when it fails; it
\* never ends in an unhandled fault.
C11_ProxyResult ==
    (last.op = "request_from" /\ CarriesFields(last.req) /\ last.net \in {"ok", "fail"})
    => /\ last.exc = None
       /\ last.net = "ok" => last.ret = DestResponse
       /\ last.net = "fail" => last.ret = RelayError

\* The lock was held, in the sense of HeldBefore, when the request in last was
\* served.
HeldAtRequest == HeldBefore(last.at + 1)

\* C12: a deliver request is dispatched to the module holding the lock when the
\* lock is held, and is dropped with no outbound call when it is not.
C12_DeliverRoutesByLock ==
    (last.op = "get_message" /\ last.req.kind = "string")
    => /\ HeldAtRequest => last.posted = last.pre[2]
       /\ ~HeldAtRequest => last.posted = None

\* C13: a deliver request is acknowledged with {result: true}, whatever becomes
\* of the dispatch.
C13_DeliverAcknowledged ==
    (last.op = "get_message" /\ CarriesFields(last.req))
    => /\ last.exc = None
       /\ last.ret = jsonify(TRUE)

\* C14: a send or a proxy call whose destination never answers returns to its
\* caller, resolved as a RelayError.
C14_TimeoutResolves ==
    (/\ last.op \in {"post_message", "request_from"}
     /\ CarriesFields(last.req)
     /\ last.net = "hang")
    => /\ last.exc = None
       /\ last.ret = RelayError

\* C15: register with an empty phrase is rejected as an invalid argument and
\* leaves the registry as it was; no other phrase is rejected.
C15_EmptyPhraseRejected ==
    (last.op = "register_phrase" /\ CarriesFields(last.req))
    => /\ last.req.phrase = "" => (last.exc = "abort400" /\ keywords = last.pre)
       /\ last.req.phrase # "" => last.exc = None

\* C16: release lock is rejected as an invalid argument, with the state left as
\* it was, exactly when `sender` is missing from the request.
C16_RequiredFieldsValidated ==
    (last.op = "disable_interactive" /\ CarriesFields(last.req))
    => /\ "sender" \notin last.req.keys =>
              /\ last.exc = "abort400"
              /\ <<interactive_lock, locking_module, keywords>> = last.pre
       /\ "sender" \in last.req.keys => last.exc # "abort400"

\* C17: an accepted release-lock request is answered {result: true}, whether the
\* lock was held or not, and the lock is free afterwards.
C17_ReleaseAlwaysTrue ==
    (/\ last.op = "disable_interactive"
     /\ CarriesFields(last.req)
     /\ last.req.keys = {"sender"})
    => /\ last.exc = None
       /\ last.ret = jsonify(TRUE)
       /\ is_unlocked

\* C18: thread t registered (B, p) and thread u, after at most one registration
\* of its own, ran deregister_all(A) with A other than B; both done, (B, p) is
\* in the registry and no entry of A is.
C18_RegistryMutationsSerialized ==
    \A t, u \in Threads :
        (/\ t # u
         /\ pc[t] = "idle" /\ pc[u] = "idle"
         /\ tops[t] = <<"add_keyword">>
         /\ tops[u] \in {<<"deregister_all">>, <<"add_keyword", "deregister_all">>}
         /\ targ[t] # targ[u])
        => /\ \E i \in 1 .. Len(keywords) :
                  keywords[i] = [module |-> targ[t], phrase |-> tloc[t].phrase]
           /\ OwnedBy(keywords, targ[u]) = {}

\* C19: while an acquire has been granted and not released, is_free() returns
\* false and every acquire is denied.
C19_HeldLockStaysHeld ==
    \A j \in 1 .. Len(hist) :
        HeldBefore(j) =>
            /\ hist[j].op = "is_unlocked" => hist[j].ret = FALSE
            /\ hist[j].op = "lock" => hist[j].ret = FALSE

\* C20: the lock and the registry are independent: a step of acquire, release or
\* is_free (the steps that extend hist) leaves the registry as it was, and a
\* step of add_keyword or deregister_all (the other steps) leaves locked and
\* lock_owner as they were, whatever the call returned or raised.
C20_LockRegistryIndependent ==
    [][/\ hist' # hist => keywords' = keywords
       /\ hist' = hist =>
             (interactive_lock' = interactive_lock /\ locking_module' = locking_module)]_vars

\* C20 witness: with an owner recorded by a lock call and a release call made,
\* deregister_all removed one entry and left another.
C20_Witness ==
    /\ \E i \in 1 .. Len(hist) : hist[i].op = "lock"
    /\ \E i \in 1 .. Len(hist) : hist[i].op = "unlock"
    /\ locking_module # None
    /\ last.op = "deregister_all"
    /\ last.exc = None
    /\ last.ret = 1
    /\ keywords # <<>>

====
